---------------------------- MODULE Spec2Model ----------------------------
(***************************************************************************)
(* A model of sourmash's index layer (src/sourmash/index/__init__.py):     *)
(* the Index base class (search, gather, counter_gather), the selection    *)
(* predicate select_signature, and the three backends LinearIndex,         *)
(* ZipFileLinearIndex and MultiIndex.                                      *)
(*                                                                         *)
(* Sketches are sets of hashes drawn from 1..MaxHash.  A scaled sketch     *)
(* with scaled = s keeps the hashes <= MaxHash \div s; a num sketch has    *)
(* scaled = 0.  Scores are exact rationals <<n, d>> with d > 0.            *)
(***************************************************************************)
EXTENDS Integers, Sequences, FiniteSets

VARIABLES idx, parent, call, outcome, cg

vars == <<idx, parent, call, outcome, cg>>

-----------------------------------------------------------------------------
(* Bounds of the model *)

\* hashes are drawn from 1..MaxHash (stands for the 64-bit hash space)
MaxHash == 2

\* a leaf index holds at most MaxSigs signatures
MaxSigs == 2

\* a MultiIndex holds at most MaxSub sub-indexes
MaxSub == 2

-----------------------------------------------------------------------------
(* Python values *)

\* Python's None, for locations, sources and filenames
None == "None"

\* Python truthiness of a string-or-None value: None and '' are falsy
Truthy(v) == v # None /\ v # ""

\* a rational number n/d, d > 0
Rat(n, d) == <<n, d>>

\* a >= b on rationals
RatGE(a, b) == a[1] * b[2] >= b[1] * a[2]

\* a > b on rationals
RatGT(a, b) == a[1] * b[2] > b[1] * a[2]

\* a = b on rationals
RatEQ(a, b) == a[1] * b[2] = b[1] * a[2]

Max(a, b) == IF a >= b THEN a ELSE b

Min(a, b) == IF a <= b THEN a ELSE b

\* sequences over S of length at most n
SeqsUpTo(S, n) == UNION {[1..k -> S] : k \in 0..n}

RECURSIVE SumPow2(_)
\* sum of 2^(h-1) over a set of hashes: a content code of the hash set
SumPow2(H) ==
    IF H = {} THEN 0
    ELSE LET h == CHOOSE x \in H : TRUE
         IN  2 ^ (h - 1) + SumPow2(H \ {h})

-----------------------------------------------------------------------------
(* The sketch capability (sourmash.MinHash), consumed by the index layer *)

\* the largest hash a sketch with the given scaled value keeps
MaxHashFor(scaled) == MaxHash \div scaled

\* the hashes of sketch mh after downsampling to the given scaled value
Downsample(mh, scaled) == {h \in mh.hashes : h <= MaxHashFor(scaled)}

\* MinHash.count_common(other, downsample=True): both sides are brought to
\* the coarser of the two scaled values, then the common hashes are counted
CountCommon(a, b) ==
    LET s == Max(a.scaled, b.scaled)
    IN  Cardinality(Downsample(a, s) \cap Downsample(b, s))

\* len(minhash)
SketchLen(mh) == Cardinality(mh.hashes)

\* MinHash.contained_by(other, downsample=True): the fraction of self's
\* hashes found in other; 0.0 for an empty sketch
ContainedBy(a, b) ==
    IF SketchLen(a) = 0 THEN Rat(0, 1)
    ELSE Rat(CountCommon(a, b), SketchLen(a))

\* MinHash.max_containment(other, downsample=True)
MaxContainment(a, b) ==
    LET m == Min(SketchLen(a), SketchLen(b))
    IN  IF m = 0 THEN Rat(0, 1) ELSE Rat(CountCommon(a, b), m)

\* MinHash.similarity(other, downsample=True): Jaccard index of the two
\* downsampled hash sets; 0.0 when both are empty
Similarity(a, b) ==
    LET s == Max(a.scaled, b.scaled)
        u == Cardinality(Downsample(a, s) \cup Downsample(b, s))
    IN  Rat(CountCommon(a, b), Max(1, u))

\* SourmashSignature.md5sum(): a content fingerprint of ksize and hashes,
\* modelled as a number that is distinct for distinct contents
Md5sum(ss) == ss.ksize * (2 ^ MaxHash) + SumPow2(ss.hashes)

\* a signature: its sketch's hashes and parameters
Sig(H, scaled, num, ksize, moltype) ==
    [hashes |-> H, scaled |-> scaled, num |-> num,
     ksize |-> ksize, moltype |-> moltype]

-----------------------------------------------------------------------------
(* Index objects *)

\* select_signature's keyword arguments; 0, "" and FALSE stand for
\* None/absent (all of them falsy in Python)
Selection(ksize, moltype, scaled, num, containment) ==
    [ksize |-> ksize, moltype |-> moltype, scaled |-> scaled, num |-> num,
     containment |-> containment]

\* no constraint at all: selection_dict None or empty
NoSelection == Selection(0, "", 0, 0, FALSE)

\* LinearIndex.__init__
LinearIndex(signatures, filename) ==
    [kind |-> "LinearIndex", signatures |-> signatures, location |-> filename,
     selection_dict |-> NoSelection, traverse_yield_all |-> FALSE,
     index_list |-> <<>>, source_list |-> <<>>]

\* ZipFileLinearIndex.__init__: zf is modelled by the archive's entries
\* (field signatures: a sequence of [issig, sigs], the entry's name having a
\* signature suffix or not, and the signatures it decodes to) and its
\* filename (field location)
ZipFileLinearIndex(entries, filename, selection_dict, traverse_yield_all) ==
    [kind |-> "ZipFileLinearIndex", signatures |-> entries,
     location |-> filename, selection_dict |-> selection_dict,
     traverse_yield_all |-> traverse_yield_all,
     index_list |-> <<>>, source_list |-> <<>>]

\* MultiIndex.__init__ (index_list and source_list have the same length)
MultiIndex(index_list, source_list) ==
    [kind |-> "MultiIndex", signatures |-> <<>>, location |-> None,
     selection_dict |-> NoSelection, traverse_yield_all |-> FALSE,
     index_list |-> index_list, source_list |-> source_list]

-----------------------------------------------------------------------------
(* The selection predicate and enumeration *)

\* select_signature(ss, **sel): "True", "False", or "ValueError" when
\* containment is requested without scaled and ss got past ksize and moltype
select_signature(ss, sel) ==
    IF sel.ksize # 0 /\ sel.ksize # ss.ksize THEN "False"
    ELSE IF sel.moltype # "" /\ sel.moltype # ss.moltype THEN "False"
    ELSE IF sel.containment /\ sel.scaled = 0 THEN "ValueError"
    ELSE IF sel.containment /\ ss.scaled = 0 THEN "False"
    ELSE IF sel.scaled # 0 /\ ss.num # 0 THEN "False"
    ELSE IF sel.num # 0 /\ (ss.scaled # 0 \/ sel.num # ss.num) THEN "False"
    ELSE "True"

\* the result of an enumeration: the signatures yielded, and the error that
\* ended it ("" when it ran to its end)
Yield(err, sigs) == [err |-> err, sigs |-> sigs]

RECURSIVE SelectLoop(_, _, _)
\* the loop "for ss in sigs: if select_signature(ss, **sel): keep ss",
\* ended by the first ValueError; acc holds what was kept so far
SelectLoop(sigs, sel, acc) ==
    IF sigs = <<>> THEN Yield("", acc)
    ELSE LET r == select_signature(Head(sigs), sel)
         IN  IF r = "ValueError" THEN Yield("ValueError", acc)
             ELSE SelectLoop(Tail(sigs), sel,
                             IF r = "True" THEN Append(acc, Head(sigs)) ELSE acc)

RECURSIVE ZipLoad(_, _)
\* ZipFileLinearIndex.signatures without the selection: the signatures of
\* every entry that has a signature suffix, or of every entry when
\* traverse_yield_all is set, in archive order
ZipLoad(entries, traverse_yield_all) ==
    IF entries = <<>> THEN <<>>
    ELSE (IF Head(entries).issig \/ traverse_yield_all
          THEN Head(entries).sigs ELSE <<>>)
         \o ZipLoad(Tail(entries), traverse_yield_all)

\* ZipFileLinearIndex.signatures
ZipSignatures(zidx) ==
    SelectLoop(ZipLoad(zidx.signatures, zidx.traverse_yield_all),
               zidx.selection_dict, <<>>)

RECURSIVE MultiSignatures(_, _)
RECURSIVE Signatures(_)
\* MultiIndex.signatures: the sub-indexes' enumerations, one after another
MultiSignatures(index_list, acc) ==
    IF index_list = <<>> THEN Yield("", acc)
    ELSE LET y == Signatures(Head(index_list))
         IN  IF y.err # "" THEN Yield(y.err, acc \o y.sigs)
             ELSE MultiSignatures(Tail(index_list), acc \o y.sigs)

\* idx.signatures(), by backend
Signatures(i) ==
    IF i.kind = "LinearIndex" THEN Yield("", i.signatures)
    ELSE IF i.kind = "ZipFileLinearIndex" THEN ZipSignatures(i)
    ELSE MultiSignatures(i.index_list, <<>>)

\* the result of select: the new index, or the error raised by the call
Selected(err, i) == [err |-> err, idx |-> i]

\* LinearIndex.select: filters eagerly, so select_signature's ValueError
\* leaves the select call itself
LinearSelect(lidx, sel) ==
    LET y == SelectLoop(lidx.signatures, sel, <<>>)
    IN  IF y.err # "" THEN Selected(y.err, lidx)
        ELSE Selected("", LinearIndex(y.sigs, lidx.location))

\* ZipFileLinearIndex.select: a new index over the same archive whose
\* selection_dict is the new keyword arguments
ZipSelect(zidx, sel) ==
    Selected("", ZipFileLinearIndex(zidx.signatures, zidx.location, sel,
                                    zidx.traverse_yield_all))

RECURSIVE MultiSelectLoop(_, _, _)
RECURSIVE Select(_, _)
\* the loop of MultiIndex.select over index_list
MultiSelectLoop(index_list, sel, acc) ==
    IF index_list = <<>> THEN Selected("", acc)
    ELSE LET r == Select(Head(index_list), sel)
         IN  IF r.err # "" THEN Selected(r.err, acc)
             ELSE MultiSelectLoop(Tail(index_list), sel, Append(acc, r.idx))

\* MultiIndex.select: select on every sub-index, the sources kept
MultiSelect(midx, sel) ==
    LET r == MultiSelectLoop(midx.index_list, sel, <<>>)
    IN  IF r.err # "" THEN Selected(r.err, midx)
        ELSE Selected("", MultiIndex(r.idx, midx.source_list))

\* idx.select(**sel), by backend
Select(i, sel) ==
    IF i.kind = "LinearIndex" THEN LinearSelect(i, sel)
    ELSE IF i.kind = "ZipFileLinearIndex" THEN ZipSelect(i, sel)
    ELSE MultiSelect(i, sel)

-----------------------------------------------------------------------------
(* Outcomes of a call *)

\* the call returned value; scanned signatures were enumerated on the way
Returned(value, scanned) ==
    [status |-> "ok", value |-> value, scanned |-> scanned]

\* the call raised the exception err after enumerating scanned signatures
Raised(err, scanned) == [status |-> err, value |-> <<>>, scanned |-> scanned]

\* no call has completed yet, or one is running
NoOutcome == [status |-> "none", value |-> <<>>, scanned |-> 0]

\* a result triple (score, ss, location)
Result(score, ss, loc) == [score |-> score, sig |-> ss, loc |-> loc]

\* threshold=None in a search call
NoThreshold == Rat(0, 0)

-----------------------------------------------------------------------------
(* Index.search *)

\* the query_match lambda that search configures from its flags
QueryMatch(query, ss, do_containment, do_max_containment) ==
    IF do_containment THEN ContainedBy(query, ss)
    ELSE IF do_max_containment THEN MaxContainment(query, ss)
    ELSE Similarity(query, ss)

\* the test "score >= threshold" of the search loop
ScorePasses(score, threshold) == RatGE(score, threshold)

RECURSIVE SearchLoop(_, _, _, _, _, _)
\* the loop of Index.search over self.signatures()
SearchLoop(sigs, query, threshold, do_c, do_mc, loc) ==
    IF sigs = <<>> THEN <<>>
    ELSE LET score == QueryMatch(query, Head(sigs), do_c, do_mc)
             rest  == SearchLoop(Tail(sigs), query, threshold, do_c, do_mc, loc)
         IN  IF ScorePasses(score, threshold)
             THEN <<Result(score, Head(sigs), loc)>> \o rest
             ELSE rest

RECURSIVE InsertMatchAscending(_, _)
\* InsertMatch with the comparison turned round (the sort key x[0] in place
\* of -x[0]): lowest score first
InsertMatchAscending(sorted, x) ==
    IF sorted = <<>> THEN <<x>>
    ELSE IF RatGE(x.score, Head(sorted).score)
         THEN <<Head(sorted)>> \o InsertMatchAscending(Tail(sorted), x)
         ELSE <<x>> \o sorted

RECURSIVE InsertMatch(_, _)
\* x put into a list sorted by score, highest first, after its equals
InsertMatch(sorted, x) ==
    IF sorted = <<>> THEN <<x>>
    ELSE IF RatGE(Head(sorted).score, x.score)
         THEN <<Head(sorted)>> \o InsertMatch(Tail(sorted), x)
         ELSE <<x>> \o sorted

RECURSIVE SortLoop(_, _)
SortLoop(matches, acc) ==
    IF matches = <<>> THEN acc
    ELSE SortLoop(Tail(matches), InsertMatch(acc, Head(matches)))

\* matches.sort(key=lambda x: -x[0]): stable, by score, highest first
SortMatches(matches) == SortLoop(matches, <<>>)

\* Index.search, inherited by LinearIndex and ZipFileLinearIndex
IndexSearch(i, query, threshold, do_c, do_mc) ==
    IF threshold = NoThreshold THEN Raised("TypeError", 0)
    ELSE IF do_c /\ do_mc THEN Raised("TypeError", 0)
    ELSE LET y == Signatures(i)
         IN  IF y.err # "" THEN Raised(y.err, Len(y.sigs))
             ELSE Returned(SortMatches(SearchLoop(y.sigs, query, threshold,
                                                  do_c, do_mc, i.location)),
                           Len(y.sigs))

\* BestSrc with the operands exchanged (filename or src)
BestSrcFilenameFirst(src, filename) ==
    IF Truthy(filename) THEN filename ELSE src

\* best_src = src or filename
BestSrc(src, filename) == IF Truthy(src) THEN src ELSE filename

\* the inner loop of MultiIndex.search and MultiIndex.gather: every result
\* of one sub-index with its location replaced by best_src
Retag(results, src) ==
    [k \in 1..Len(results) |->
        Result(results[k].score, results[k].sig, BestSrc(src, results[k].loc))]

RECURSIVE MultiSearchLoop(_, _, _, _, _, _, _, _)
RECURSIVE Search(_, _, _, _, _)
\* the outer loop of MultiIndex.search over zip(index_list, source_list)
MultiSearchLoop(index_list, source_list, query, threshold, do_c, do_mc, acc, scanned) ==
    IF index_list = <<>> THEN Returned(SortMatches(acc), scanned)
    ELSE LET r == Search(Head(index_list), query, threshold, do_c, do_mc)
         IN  IF r.status # "ok" THEN Raised(r.status, scanned + r.scanned)
             ELSE MultiSearchLoop(Tail(index_list), Tail(source_list), query,
                                  threshold, do_c, do_mc,
                                  acc \o Retag(r.value, Head(source_list)),
                                  scanned + r.scanned)

\* MultiIndex.search
MultiSearch(midx, query, threshold, do_c, do_mc) ==
    MultiSearchLoop(midx.index_list, midx.source_list, query, threshold,
                    do_c, do_mc, <<>>, 0)

\* idx.search(query, threshold, do_containment, do_max_containment)
Search(i, query, threshold, do_c, do_mc) ==
    IF i.kind = "MultiIndex" THEN MultiSearch(i, query, threshold, do_c, do_mc)
    ELSE IndexSearch(i, query, threshold, do_c, do_mc)

-----------------------------------------------------------------------------
(* Index.gather *)

\* n_threshold_hashes = float(threshold_bp) / scaled, or 0 without threshold_bp
NThresholdHashes(query, threshold_bp) ==
    IF threshold_bp # 0 THEN Rat(threshold_bp, query.scaled) ELSE Rat(0, 1)

\* threshold = n_threshold_hashes / len(query.minhash), or 0.0
GatherThreshold(query, threshold_bp) ==
    IF threshold_bp # 0
    THEN Rat(threshold_bp, query.scaled * SketchLen(query))
    ELSE Rat(0, 1)

\* ContPasses without the comparison against the threshold ("if cont")
ContPassesNonzero(cont, threshold) == cont[1] # 0

\* the test "cont and cont >= threshold"
ContPasses(cont, threshold) == cont[1] # 0 /\ RatGE(cont, threshold)

RECURSIVE GatherLoop(_, _, _, _)
\* the loop of Index.gather over self.signatures()
GatherLoop(sigs, query, threshold, loc) ==
    IF sigs = <<>> THEN <<>>
    ELSE LET cont == ContainedBy(query, Head(sigs))
             rest == GatherLoop(Tail(sigs), query, threshold, loc)
         IN  IF ContPasses(cont, threshold)
             THEN <<Result(cont, Head(sigs), loc)>> \o rest
             ELSE rest

\* the sort key (x[0], x[1].md5sum()) of a >= that of b
KeyGE(a, b) ==
    \/ RatGT(a.score, b.score)
    \/ RatEQ(a.score, b.score) /\ Md5sum(a.sig) >= Md5sum(b.sig)

RECURSIVE InsertResult(_, _)
InsertResult(sorted, x) ==
    IF sorted = <<>> THEN <<x>>
    ELSE IF KeyGE(Head(sorted), x)
         THEN <<Head(sorted)>> \o InsertResult(Tail(sorted), x)
         ELSE <<x>> \o sorted

RECURSIVE SortResultsLoop(_, _)
SortResultsLoop(results, acc) ==
    IF results = <<>> THEN acc
    ELSE SortResultsLoop(Tail(results), InsertResult(acc, Head(results)))

\* results.sort(reverse=True, key=lambda x: (x[0], x[1].md5sum())): stable
SortResults(results) == SortResultsLoop(results, <<>>)

\* Index.gather, inherited by LinearIndex and ZipFileLinearIndex
IndexGather(i, query, threshold_bp) ==
    IF SketchLen(query) = 0 THEN Returned(<<>>, 0)
    ELSE IF query.scaled = 0 THEN Raised("ValueError", 0)
    ELSE IF threshold_bp # 0
            /\ RatGT(GatherThreshold(query, threshold_bp), Rat(1, 1))
         THEN Returned(<<>>, 0)
    ELSE LET y == Signatures(i)
         IN  IF y.err # "" THEN Raised(y.err, Len(y.sigs))
             ELSE Returned(SortResults(GatherLoop(y.sigs, query,
                               GatherThreshold(query, threshold_bp),
                               i.location)),
                           Len(y.sigs))

RECURSIVE MultiGatherLoop(_, _, _, _, _, _)
RECURSIVE Gather(_, _, _)
\* the outer loop of MultiIndex.gather over zip(index_list, source_list)
MultiGatherLoop(index_list, source_list, query, threshold_bp, acc, scanned) ==
    IF index_list = <<>> THEN Returned(SortResults(acc), scanned)
    ELSE LET r == Gather(Head(index_list), query, threshold_bp)
         IN  IF r.status # "ok" THEN Raised(r.status, scanned + r.scanned)
             ELSE MultiGatherLoop(Tail(index_list), Tail(source_list), query,
                                  threshold_bp,
                                  acc \o Retag(r.value, Head(source_list)),
                                  scanned + r.scanned)

\* MultiIndex.gather
MultiGather(midx, query, threshold_bp) ==
    MultiGatherLoop(midx.index_list, midx.source_list, query, threshold_bp,
                    <<>>, 0)

\* idx.gather(query, threshold_bp=threshold_bp)
Gather(i, query, threshold_bp) ==
    IF i.kind = "MultiIndex" THEN MultiGather(i, query, threshold_bp)
    ELSE IndexGather(i, query, threshold_bp)

-----------------------------------------------------------------------------
(* Index.counter_gather *)

\* collections.Counter as the sequence of its items, in insertion order
CounterItem(id, count) == [id |-> id, count |-> count]

\* dataset_id in counter
CounterHas(counter, id) == \E k \in 1..Len(counter) : counter[k].id = id

\* counter[dataset_id]: 0 for a missing key
CounterGet(counter, id) ==
    IF CounterHas(counter, id)
    THEN counter[CHOOSE k \in 1..Len(counter) : counter[k].id = id].count
    ELSE 0

\* counter[dataset_id] = v: an existing key keeps its place, a new key is
\* added at the end
CounterSet(counter, id, v) ==
    IF CounterHas(counter, id)
    THEN [k \in 1..Len(counter) |->
             IF counter[k].id = id THEN CounterItem(id, v) ELSE counter[k]]
    ELSE Append(counter, CounterItem(id, v))

\* CounterDel that deletes nothing (the del statement left out)
CounterDelKeeps(counter, id) == counter

\* del counter[dataset_id]
CounterDel(counter, id) == SelectSeq(counter, LAMBDA it : it.id # id)

RECURSIVE InsertItem(_, _)
InsertItem(sorted, x) ==
    IF sorted = <<>> THEN <<x>>
    ELSE IF Head(sorted).count >= x.count
         THEN <<Head(sorted)>> \o InsertItem(Tail(sorted), x)
         ELSE <<x>> \o sorted

RECURSIVE MostCommonLoop(_, _)
MostCommonLoop(items, acc) ==
    IF items = <<>> THEN acc
    ELSE MostCommonLoop(Tail(items), InsertItem(acc, Head(items)))

\* Counter.most_common(): the items sorted by count, highest first; equal
\* counts stay in insertion order (sorted(..., reverse=True) is stable)
MostCommon(counter) == MostCommonLoop(counter, <<>>)

\* the first loop: counter[i] = query.minhash.count_common(ss.minhash, True)
BuildCounter(signatures, query) ==
    [k \in 1..Len(signatures) |->
        CounterItem(k, CountCommon(query, signatures[k]))]

RECURSIVE DecrementLoop(_, _, _, _)
\* the loop "for (dataset_id, _) in most_common: counter[dataset_id] -= ...;
\* if counter[dataset_id] == 0: del counter[dataset_id]"
DecrementLoop(most_common, counter, signatures, match) ==
    IF most_common = <<>> THEN counter
    ELSE LET id == Head(most_common).id
             v  == CounterGet(counter, id)
                   - CountCommon(signatures[id], match)
             c  == IF v = 0 THEN CounterDel(counter, id)
                   ELSE CounterSet(counter, id, v)
         IN  DecrementLoop(Tail(most_common), c, signatures, match)

\* the frame of a counter_gather call: its position, its local variables,
\* and a record of what the loop did (chosen: the dataset ids picked, in
\* order; emitted: those appended to results; before: the counter at the
\* start of the latest iteration that picked a candidate)
Frame(pc, signatures, counter, results, match_size, chosen, emitted, before) ==
    [pc |-> pc, signatures |-> signatures, counter |-> counter,
     results |-> results, match_size |-> match_size, chosen |-> chosen,
     emitted |-> emitted, before |-> before]

\* no counter_gather call is running
IdleFrame == Frame("idle", <<>>, <<>>, <<>>, Rat(0, 1), <<>>, <<>>, <<>>)

\* counter_gather up to the greedy loop: the outcome when it returns or
\* raises before the loop, and the frame at the loop's first test otherwise
CounterGatherBegin(i, query, threshold_bp) ==
    IF SketchLen(query) = 0
    THEN [outcome |-> Returned(<<>>, 0), frame |-> IdleFrame]
    ELSE IF query.scaled = 0
    THEN [outcome |-> Raised("ValueError", 0), frame |-> IdleFrame]
    ELSE IF threshold_bp # 0
            /\ RatGT(GatherThreshold(query, threshold_bp), Rat(1, 1))
    THEN [outcome |-> Returned(<<>>, 0), frame |-> IdleFrame]
    ELSE LET y == Signatures(i)
         IN  IF y.err # ""
             THEN [outcome |-> Raised(y.err, Len(y.sigs)), frame |-> IdleFrame]
             ELSE [outcome |-> NoOutcome,
                   frame |-> Frame("loop", y.sigs, BuildCounter(y.sigs, query),
                                   <<>>, NThresholdHashes(query, threshold_bp),
                                   <<>>, <<>>, <<>>)]

\* the loop test "while counter and match_size >= n_threshold_hashes"
LoopTest(f, query, threshold_bp) ==
    /\ f.counter # <<>>
    /\ RatGE(f.match_size, NThresholdHashes(query, threshold_bp))

\* the test "size >= n_threshold_hashes" on the most common item
SizePasses(size, query, threshold_bp) ==
    RatGE(Rat(size, 1), NThresholdHashes(query, threshold_bp))

\* one pass through the greedy loop, from its test: the loop is left (pc
\* "sort") when the test fails or the most common count is below
\* n_threshold_hashes; otherwise the most common dataset is picked
CounterGatherStep(f, query, threshold_bp) ==
    IF ~LoopTest(f, query, threshold_bp) THEN [f EXCEPT !.pc = "sort"]
    ELSE LET most_common == MostCommon(f.counter)
             dataset_id  == most_common[1].id
             size        == most_common[1].count
         IN  IF ~SizePasses(size, query, threshold_bp)
             THEN [f EXCEPT !.pc = "sort"]
             ELSE LET match == f.signatures[dataset_id]
                      cont  == ContainedBy(query, match)
                      keep  == ContPasses(cont,
                                   GatherThreshold(query, threshold_bp))
                  IN  Frame("loop", f.signatures,
                            DecrementLoop(most_common,
                                          CounterDel(f.counter, dataset_id),
                                          f.signatures, match),
                            IF keep
                            THEN Append(f.results, Result(cont, match, None))
                            ELSE f.results,
                            Rat(size, 1),
                            Append(f.chosen, dataset_id),
                            IF keep THEN Append(f.emitted, dataset_id)
                            ELSE f.emitted,
                            f.counter)

-----------------------------------------------------------------------------
(* Calls *)

\* the arguments of the latest call
Call(op, query, threshold, do_c, do_mc, threshold_bp, sel) ==
    [op |-> op, query |-> query, threshold |-> threshold,
     do_containment |-> do_c, do_max_containment |-> do_mc,
     threshold_bp |-> threshold_bp, selection |-> sel]

\* an empty scaled sketch, where a call takes no query
NoQuery == Sig({}, 1, 0, 0, "")

NoCall == Call("none", NoQuery, NoThreshold, FALSE, FALSE, 0, NoSelection)

\* the greedy loop of a call that never ends is followed for MaxIter picks
MaxIter == MaxSigs + 2

\* no counter_gather call is in progress
Ready == cg.pc \in {"idle", "done"}

\* no query has been run on idx since it was built or last inserted into:
\* search, gather and counter_gather leave the index as it is, so one query
\* is followed from each content of the index
Fresh == call.op \in {"none", "insert"}

\* idx.search(query, threshold, do_containment, do_max_containment)
SearchCall(queries, thresholds) ==
    \E query \in queries, threshold \in thresholds, do_c, do_mc \in BOOLEAN :
        /\ Fresh
        /\ call' = Call("search", query, threshold, do_c, do_mc, 0, NoSelection)
        /\ outcome' = Search(idx, query, threshold, do_c, do_mc)
        /\ cg' = IdleFrame
        /\ UNCHANGED <<idx, parent>>

\* idx.gather(query, threshold_bp=threshold_bp)
GatherCall(queries, bps) ==
    \E query \in queries, threshold_bp \in bps :
        /\ Fresh
        /\ call' = Call("gather", query, NoThreshold, FALSE, FALSE,
                        threshold_bp, NoSelection)
        /\ outcome' = Gather(idx, query, threshold_bp)
        /\ cg' = IdleFrame
        /\ UNCHANGED <<idx, parent>>

\* idx.counter_gather(query, threshold_bp=threshold_bp), up to the loop
CounterGatherCall(queries, bps) ==
    \E query \in queries, threshold_bp \in bps :
        LET b == CounterGatherBegin(idx, query, threshold_bp)
        IN  /\ Fresh
            /\ call' = Call("counter_gather", query, NoThreshold, FALSE, FALSE,
                            threshold_bp, NoSelection)
            /\ outcome' = b.outcome
            /\ cg' = b.frame
            /\ UNCHANGED <<idx, parent>>

\* one pass through the greedy loop of the running counter_gather call
CounterGatherIterate ==
    /\ cg.pc = "loop"
    /\ Len(cg.chosen) < MaxIter
    /\ cg' = CounterGatherStep(cg, call.query, call.threshold_bp)
    /\ UNCHANGED <<idx, parent, call, outcome>>

\* the end of counter_gather: results.sort(...); return results
CounterGatherReturn ==
    /\ cg.pc = "sort"
    /\ outcome' = Returned(SortResults(cg.results), Len(cg.signatures))
    /\ cg' = [cg EXCEPT !.pc = "done"]
    /\ UNCHANGED <<idx, parent, call>>

\* idx = idx.select(**sel); the receiver is kept in parent
SelectCall(sels) ==
    \E sel \in sels :
        LET r == Select(idx, sel)
        IN  /\ Ready
            /\ call' = Call("select", NoQuery, NoThreshold, FALSE, FALSE, 0, sel)
            /\ outcome' = IF r.err # "" THEN Raised(r.err, 0)
                          ELSE Returned(<<>>, 0)
            /\ idx' = r.idx
            /\ parent' = idx
            /\ cg' = IdleFrame

\* insert: LinearIndex appends the signature to its list in place;
\* ZipFileLinearIndex and MultiIndex raise NotImplementedError
Insert(i, node) ==
    IF i.kind = "LinearIndex"
    THEN [err |-> "", idx |-> [i EXCEPT !.signatures = Append(@, node)]]
    ELSE [err |-> "NotImplementedError", idx |-> i]

\* idx.insert(node); a LinearIndex is filled up to MaxSigs signatures
InsertCall(nodes) ==
    \E node \in nodes :
        LET r == Insert(idx, node)
        IN  /\ Ready
            /\ idx.kind = "LinearIndex" => Len(idx.signatures) < MaxSigs
            /\ call' = Call("insert", node, NoThreshold, FALSE, FALSE, 0,
                            NoSelection)
            /\ outcome' = IF r.err # "" THEN Raised(r.err, 0)
                          ELSE Returned(<<>>, 0)
            /\ idx' = r.idx
            /\ parent' = r.idx
            /\ cg' = IdleFrame

\* list(idx.signatures())
SignaturesCall ==
    LET y == Signatures(idx)
    IN  /\ Ready
        /\ call' = Call("signatures", NoQuery, NoThreshold, FALSE, FALSE, 0,
                        NoSelection)
        /\ outcome' = IF y.err # "" THEN Raised(y.err, Len(y.sigs))
                      ELSE Returned(y.sigs, Len(y.sigs))
        /\ cg' = IdleFrame
        /\ UNCHANGED <<idx, parent>>

-----------------------------------------------------------------------------
(* The gather specification: gather and counter_gather on indexes of       *)
(* scaled sketches over all hash sets                                      *)

\* every scaled sketch over 1..MaxHash, scaled 1 or 2
SketchPool ==
    UNION {{Sig(H, s, 0, 31, "DNA") : H \in SUBSET (1..MaxHashFor(s))} :
           s \in {1, 2}}

\* fixed-size (num) query sketches, empty and not
NumQueries == {Sig(H, 0, 2, 31, "DNA") : H \in {{}, {1}}}

\* a MultiIndex holding each signature in a LinearIndex of its own
OnePerSub(sigs) ==
    MultiIndex([k \in 1..Len(sigs) |-> LinearIndex(<<sigs[k]>>, None)],
               [k \in 1..Len(sigs) |-> None])

GatherIndexes ==
    UNION {{LinearIndex(sigs, "a.sig"), OnePerSub(sigs)} :
           sigs \in SeqsUpTo(SketchPool, MaxSigs)}

GatherQueries == SketchPool \cup NumQueries

ThresholdBps == {-(MaxHash + 1)} \cup 0..(MaxHash + 1)

Init ==
    /\ idx \in GatherIndexes
    /\ parent = idx
    /\ call = NoCall
    /\ outcome = NoOutcome
    /\ cg = IdleFrame

Next ==
    \/ GatherCall(GatherQueries, ThresholdBps)
    \/ CounterGatherCall(GatherQueries, ThresholdBps)
    \/ CounterGatherIterate
    \/ CounterGatherReturn
    \/ InsertCall(SketchPool)

Spec == Init /\ [][Next]_vars

-----------------------------------------------------------------------------
(* Properties of gather and counter_gather, checked under Spec *)

\* no value occurs twice in the sequence
NoDuplicates(seq) ==
    \A j, k \in 1..Len(seq) : j # k => seq[j] # seq[k]

\* the latest call is a gather or counter_gather with a non-empty scaled
\* query and threshold_bp >= 0
ScaledGatherCall ==
    /\ call.op \in {"gather", "counter_gather"}
    /\ SketchLen(call.query) > 0
    /\ call.query.scaled > 0
    /\ call.threshold_bp >= 0

\* C2: after every iteration of the counter_gather greedy loop that picked a
\* candidate, the mapping holds fewer entries than before the iteration, or
\* the loop ends there (the next pass through the loop leaves it).  Stated
\* for threshold_bp >= 0.
C2_MappingShrinks ==
    (/\ call.op = "counter_gather"
     /\ call.threshold_bp >= 0
     /\ cg.pc = "loop"
     /\ cg.chosen # <<>>)
    => \/ Len(cg.counter) < Len(cg.before)
       \/ CounterGatherStep(cg, call.query, call.threshold_bp).pc = "sort"

\* C4: gather and counter_gather with a fixed-size (non-scaled) query raise
\* a configuration error (ValueError) whatever the index holds.  Stated for
\* non-empty query sketches.
C4_FixedSizeQueryRaises ==
    (/\ call.op \in {"gather", "counter_gather"}
     /\ call.query.scaled = 0
     /\ SketchLen(call.query) > 0)
    => outcome.status = "ValueError"

\* C8: for a non-empty scaled query and threshold_bp >= 0, every result that
\* gather or counter_gather returns carries the containment of the query in
\* its signature, which is nonzero and at least
\* (threshold_bp / scaled) / len(query); and the list returned is empty when
\* that threshold exceeds 1.
C8_ResultsMeetThreshold ==
    (ScaledGatherCall /\ outcome.status = "ok")
    => LET q     == call.query
           denom == q.scaled * SketchLen(q)
       IN  /\ \A k \in 1..Len(outcome.value) :
                  LET r == outcome.value[k]
                  IN  /\ r.score = Rat(CountCommon(q, r.sig), SketchLen(q))
                      /\ r.score[1] > 0
                      /\ r.score[1] * denom >= call.threshold_bp * r.score[2]
           /\ call.threshold_bp > denom => outcome.value = <<>>

\* a counter_gather call with a positive threshold_bp has returned some of
\* the index's signatures and left others out
C8_Witness ==
    /\ ScaledGatherCall
    /\ call.op = "counter_gather"
    /\ call.threshold_bp > 0
    /\ cg.pc = "done"
    /\ outcome.status = "ok"
    /\ Len(outcome.value) >= 1
    /\ Len(outcome.value) < Len(cg.signatures)

\* C9: in every iteration of the greedy loop the candidate picked has the
\* largest count of the mapping, that count is >= n_threshold_hashes, and
\* among the entries with that count it is the first in the index's
\* enumeration order.
C9_FirstSeenMax ==
    (call.op = "counter_gather" /\ cg.chosen # <<>>)
    => LET id    == cg.chosen[Len(cg.chosen)]
           count == CounterGet(cg.before, id)
       IN  /\ CounterHas(cg.before, id)
           /\ count * call.query.scaled >= call.threshold_bp
           /\ \A k \in 1..Len(cg.before) :
                  /\ cg.before[k].count <= count
                  /\ cg.before[k].count = count => id <= cg.before[k].id

\* C10: with threshold_bp >= 0, no candidate is picked twice by the greedy
\* loop, so the loop picks at most as many candidates as the index has
\* signatures and the output holds each signature at most once.
C10_NeverReselected ==
    (call.op = "counter_gather" /\ call.threshold_bp >= 0)
    => /\ NoDuplicates(cg.chosen)
       /\ Len(cg.chosen) <= Len(cg.signatures)
       /\ NoDuplicates(cg.emitted)
       /\ cg.pc = "done" => Len(outcome.value) = Len(cg.emitted)

\* a counter_gather call with threshold_bp >= 0 has ended after picking
\* every one of at least two signatures
C10_Witness ==
    /\ call.op = "counter_gather"
    /\ call.threshold_bp >= 0
    /\ cg.pc = "done"
    /\ Len(cg.chosen) >= 2
    /\ Len(cg.chosen) = Len(cg.signatures)

-----------------------------------------------------------------------------
(* The search specification: search and gather on the three backends       *)

\* the scaled sketch holding the hashes 1..n
PrefixSig(n) == Sig(1..n, 1, 0, 31, "DNA")

\* an archive holding each signature in an entry of its own, named *.sig
ZipOf(sigs, filename) ==
    ZipFileLinearIndex([k \in 1..Len(sigs) |->
                           [issig |-> TRUE, sigs |-> <<sigs[k]>>]],
                       filename, NoSelection, FALSE)

\* LinearIndex and ZipFileLinearIndex objects over all scaled sketches
LeafIndexes ==
    UNION {{LinearIndex(sigs, None), LinearIndex(sigs, "a.sig"),
            ZipOf(sigs, "db.zip")} :
           sigs \in SeqsUpTo(SketchPool, MaxSigs)}

\* what a sub-index of a MultiIndex holds: the sketches of 1..1, 1..2, ...
SubRuns == {[k \in 1..n |-> PrefixSig(k)] : n \in 0..MaxHash}

\* the sub-indexes of a MultiIndex: a LinearIndex without a filename, or an
\* archive
SubIndexes ==
    UNION {{LinearIndex(sigs, None), ZipOf(sigs, "db.zip")} : sigs \in SubRuns}

\* the sources a MultiIndex records: None, the empty string, a path
Sources == {None, "", "dir/a.sig"}

\* MultiIndex objects of at most MaxSub sub-indexes
Composites ==
    UNION {{MultiIndex(il, sl) : il \in [1..n -> SubIndexes],
                                 sl \in [1..n -> Sources]} :
           n \in 0..MaxSub}

SearchIndexes == LeafIndexes \cup Composites

SearchQueries == {PrefixSig(n) : n \in 0..MaxHash}

\* threshold: absent, 0, 1/2, 1
Thresholds == {NoThreshold, Rat(0, 1), Rat(1, 2), Rat(1, 1)}

SearchBps == {0, 1, MaxHash + 1}

InitSearch ==
    /\ idx \in SearchIndexes
    /\ parent = idx
    /\ call = NoCall
    /\ outcome = NoOutcome
    /\ cg = IdleFrame

NextSearch ==
    \/ SearchCall(SearchQueries, Thresholds)
    \/ GatherCall(SearchQueries, SearchBps)
    \/ InsertCall(SketchPool)

SpecSearch == InitSearch /\ [][NextSearch]_vars

-----------------------------------------------------------------------------
(* Properties of search and of MultiIndex, checked under SpecSearch *)

\* C1: every result that search returns has a score >= the threshold, and
\* the list returned is sorted by score, highest first.
C1_SearchSortedAboveThreshold ==
    (call.op = "search" /\ outcome.status = "ok")
    => /\ \A k \in 1..Len(outcome.value) :
              outcome.value[k].score[1] * call.threshold[2]
                  >= call.threshold[1] * outcome.value[k].score[2]
       /\ \A k \in 1..(Len(outcome.value) - 1) :
              outcome.value[k].score[1] * outcome.value[k + 1].score[2]
                  >= outcome.value[k + 1].score[1] * outcome.value[k].score[2]

\* a search on a MultiIndex with a positive threshold has returned results
\* of two sub-indexes, the best one found in the later sub-index
C1_Witness ==
    /\ call.op = "search"
    /\ outcome.status = "ok"
    /\ idx.kind = "MultiIndex"
    /\ call.threshold[1] > 0
    /\ Len(outcome.value) >= 2
    /\ outcome.value[1].loc = "db.zip"
    /\ outcome.value[2].loc = "dir/a.sig"
    /\ idx.source_list = <<"dir/a.sig", None>>
    /\ RatGT(outcome.value[1].score, outcome.value[2].score)

\* C3: search with threshold absent, or with do_containment and
\* do_max_containment both set, raises a configuration error (TypeError)
\* before any signature is enumerated, on every backend.
C3_BadSearchArgumentsRaise ==
    (/\ call.op = "search"
     /\ \/ call.threshold = NoThreshold
        \/ call.do_containment /\ call.do_max_containment)
    => outcome.status = "TypeError" /\ outcome.scanned = 0

RECURSIVE ConcatAll(_)
\* the concatenation of a sequence of sequences
ConcatAll(seqs) ==
    IF seqs = <<>> THEN <<>> ELSE Head(seqs) \o ConcatAll(Tail(seqs))

\* the number of places of seq that hold x
Occurrences(seq, x) == Cardinality({k \in 1..Len(seq) : seq[k] = x})

\* the two sequences hold the same items, each as many times
SameItems(s, t) ==
    /\ Len(s) = Len(t)
    /\ \A k \in 1..Len(s) : Occurrences(s, s[k]) = Occurrences(t, s[k])

\* what sub-index k returns for the latest call
SubOutcome(k) ==
    IF call.op = "search"
    THEN Search(idx.index_list[k], call.query, call.threshold,
                call.do_containment, call.do_max_containment)
    ELSE Gather(idx.index_list[k], call.query, call.threshold_bp)

\* C7: the results of search and of gather on a MultiIndex are the results
\* of its sub-indexes, score and signature unchanged, each carrying the
\* MultiIndex's recorded source of its sub-index when that source is set
\* (neither None nor empty) and the location the sub-index reported
\* otherwise.
C7_Provenance ==
    (/\ idx.kind = "MultiIndex"
     /\ call.op \in {"search", "gather"}
     /\ outcome.status = "ok")
    => SameItems(outcome.value,
           ConcatAll([k \in 1..Len(idx.index_list) |->
               LET sub == SubOutcome(k).value
                   src == idx.source_list[k]
               IN  [j \in 1..Len(sub) |->
                       Result(sub[j].score, sub[j].sig,
                              IF src \notin {None, ""} THEN src
                              ELSE sub[j].loc)]]))

\* a gather on a MultiIndex has returned a result carrying the recorded
\* source of its sub-index, which reported another location, and a result
\* carrying the location its sub-index reported
C7_Witness ==
    /\ idx.kind = "MultiIndex"
    /\ call.op = "gather"
    /\ outcome.status = "ok"
    /\ Len(idx.index_list) = 2
    /\ idx.index_list[1].location = "db.zip"
    /\ idx.source_list = <<"dir/a.sig", "">>
    /\ idx.index_list[2].location = "db.zip"
    /\ \E j, k \in 1..Len(outcome.value) :
           /\ outcome.value[j].loc = "dir/a.sig"
           /\ outcome.value[k].loc = "db.zip"

-----------------------------------------------------------------------------
(* The select specification: chains of select calls, and enumeration       *)

\* signatures of every ksize, moltype and sampling policy (scaled 1, or
\* num 2), all over the same hash
SelectSigs ==
    {Sig({1}, scaled, IF scaled = 0 THEN 2 ELSE 0, ksize, moltype) :
        scaled \in {0, 1}, ksize \in {21, 31}, moltype \in {"DNA", "protein"}}

\* the entries of an archive: a *.sig entry holding one signature, an entry
\* of another name holding one, a *.sig entry that decodes to nothing
ZipEntries ==
    {[issig |-> TRUE, sigs |-> <<ss>>] : ss \in SelectSigs}
    \cup {[issig |-> FALSE, sigs |-> <<Sig({1}, 1, 0, 31, "DNA")>>],
          [issig |-> TRUE, sigs |-> <<>>]}

SelectLeaves ==
    {LinearIndex(sigs, "a.sig") : sigs \in SeqsUpTo(SelectSigs, MaxSigs)}
    \cup {ZipFileLinearIndex(entries, "db.zip", NoSelection, all) :
             entries \in SeqsUpTo(ZipEntries, MaxSigs), all \in BOOLEAN}

\* the sub-indexes of a MultiIndex: a LinearIndex or an archive of one
\* signature
SelectSubIndexes ==
    UNION {{LinearIndex(<<ss>>, None), ZipOf(<<ss>>, "db.zip")} :
           ss \in {Sig({1}, 1, 0, 31, "DNA"), Sig({1}, 0, 2, 21, "DNA")}}

SelectComposites ==
    UNION {{MultiIndex(il, [k \in 1..n |-> None]) :
               il \in [1..n -> SelectSubIndexes]} : n \in 0..MaxSub}

\* the keyword arguments of select: ksize, moltype, and a sampling
\* constraint (none, scaled, num, containment with scaled, containment
\* without scaled)
Selections ==
    {Selection(ksize, moltype, p[1], p[2], p[3]) :
        ksize \in {0, 31}, moltype \in {"", "DNA"},
        p \in {<<0, 0, FALSE>>, <<1, 0, FALSE>>, <<0, 2, FALSE>>,
               <<1, 0, TRUE>>, <<0, 0, TRUE>>}}

InitSelect ==
    /\ idx \in SelectLeaves \cup SelectComposites
    /\ parent = idx
    /\ call = NoCall
    /\ outcome = NoOutcome
    /\ cg = IdleFrame

NextSelect ==
    \/ SelectCall(Selections)
    \/ SignaturesCall
    \/ InsertCall(SelectSigs)

SpecSelect == InitSelect /\ [][NextSelect]_vars

-----------------------------------------------------------------------------
(* Properties of select, checked under SpecSelect *)

\* C5: when select(c) has returned, the new index enumerates exactly the
\* signatures of the receiver's enumeration that pass select_signature
\* under c, in the same order (stated where both enumerations run to their
\* end).
C5_SelectRestricts ==
    (/\ call.op = "select"
     /\ outcome.status = "ok"
     /\ Signatures(parent).err = ""
     /\ Signatures(idx).err = "")
    => Signatures(idx).sigs
         = SelectSeq(Signatures(parent).sigs,
               LAMBDA ss : select_signature(ss, call.selection) = "True")

\* C6: select with containment requested and no scaled value raises a
\* configuration error (ValueError) at the select call, whatever the index
\* holds.
C6_ContainmentWithoutScaledRaises ==
    (/\ call.op = "select"
     /\ call.selection.containment
     /\ call.selection.scaled = 0)
    => outcome.status = "ValueError"

=============================================================================
